---------------------------- MODULE Spec2Model ----------------------------
(* A model of cbmbasicvardump.py: the decoder of the variable storage of *)
(* a C64 BASIC memory dump.  The memory image is a sequence of bytes;    *)
(* the byte at offset i of the image is data[i + 1].                     *)
EXTENDS Integers, Sequences, FiniteSets, TLC

VARIABLES data, used, txttab, vartab, arytab, strend, fretop, memsiz,
          pc, err, pos, last, vlog, alog, strs, garbage, tick, call

vars == <<data, used, txttab, vartab, arytab, strend, fretop, memsiz,
          pc, err, pos, last, vlog, alog, strs, garbage, tick, call>>

-----------------------------------------------------------------------------
(* Program constants *)

\* Offset of the layout header (TXTTAB) in the image.
HeaderOffset == 43

\* struct size of "<HHHHHHH".
HeaderSize == 14

\* Stride of the scalar variable table.
VarStride == 7

\* Python's None for the scan's run start, and for "nothing printed yet".
None == -1

-----------------------------------------------------------------------------
(* Byte access and struct.unpack_from *)

Min(a, b) == IF a < b THEN a ELSE b

\* data[i]
B(d, i) == d[i + 1]

\* data[i] raises IndexError unless 0 <= i < len(data)
Indexable(d, i) == i >= 0 /\ i < Len(d)

\* struct.unpack_from(fmt, data, off) raises struct.error unless
\* off + calcsize(fmt) <= len(data)
Unpackable(d, off, size) == off + size <= Len(d)

\* "<H"
LE16(d, off) == B(d, off) + 256 * B(d, off + 1)

\* ">H"
BE16(d, off) == 256 * B(d, off) + B(d, off + 1)

\* The same two bytes read low byte first ("<h").
BEh_LittleEndian(d, off) ==
  LET u == B(d, off) + 256 * B(d, off + 1)
  IN  IF u >= 32768 THEN u - 65536 ELSE u

\* ">h"
BEh(d, off) ==
  LET u == 256 * B(d, off) + B(d, off + 1)
  IN  IF u >= 32768 THEN u - 65536 ELSE u

\* data[s:e] : a slice never raises, it is cut at the end of the data
Slice(d, s, e) ==
  IF s >= Len(d) \/ s >= e THEN << >> ELSE SubSeq(d, s + 1, Min(e, Len(d)))


-----------------------------------------------------------------------------
(* Dump.mark_used and Dump.print_heap_garbage *)

\* for i in range(i, epos): used[i] = 1.  A store at an index outside the
\* bytearray raises IndexError and leaves the marks made so far; a negative
\* index inside -len..-1 counts from the end.
RECURSIVE MarkFrom(_, _, _)
MarkFrom(u, i, epos) ==
  IF i >= epos THEN [used |-> u, ok |-> TRUE]
  ELSE IF i >= Len(u) \/ i < 0 - Len(u) THEN [used |-> u, ok |-> FALSE]
  ELSE MarkFrom([u EXCEPT ![(IF i < 0 THEN Len(u) + i ELSE i) + 1] = 1],
                i + 1, epos)

mark_used(u, spos, epos) == MarkFrom(u, spos, epos)

\* The loop of print_heap_garbage from index i on, with the local `start`
\* and the ranges printed so far; reading used[i] outside the bytearray
\* raises IndexError, and the trailing print_garbage is then not reached.
RECURSIVE ScanFrom(_, _, _, _, _)
ScanFrom(u, i, hi, start, acc) ==
  IF i >= hi
    THEN [ranges |-> IF start = None THEN acc ELSE Append(acc, <<start, hi>>),
          ok |-> TRUE]
  ELSE IF ~Indexable(u, i) THEN [ranges |-> acc, ok |-> FALSE]
  ELSE IF B(u, i) = 1
    THEN IF start # None
           THEN ScanFrom(u, i + 1, hi, None, Append(acc, <<start, i>>))
           ELSE ScanFrom(u, i + 1, hi, None, acc)
    ELSE ScanFrom(u, i + 1, hi, IF start = None THEN i ELSE start, acc)

\* The scan without the print_garbage after the loop: a run open at hi is
\* not reported.
print_heap_garbage_NoFlush(u, lo, hi) ==
  LET r == ScanFrom(u, lo, hi, None, << >>)
  IN  IF r.ok /\ r.ranges # << >> /\ r.ranges[Len(r.ranges)][2] = hi
        THEN [r EXCEPT !.ranges = SubSeq(r.ranges, 1, Len(r.ranges) - 1)]
        ELSE r

print_heap_garbage(u, lo, hi) == ScanFrom(u, lo, hi, None, << >>)

-----------------------------------------------------------------------------
(* The variable classes *)

\* Variable.__init__: the name, high bits masked off.
VariableName(d, p) ==
  IF B(d, p + 1) % 128 # 0 THEN <<B(d, p) % 128, B(d, p + 1) % 128>>
  ELSE <<B(d, p) % 128>>

\* The branches with the two single-flag tests exchanged.
read_var_kind_Swapped(ivarfun, ivarstr) ==
  IF ivarfun /\ ivarstr THEN "Integer"
  ELSE IF ivarstr THEN "Function"
  ELSE IF ivarfun THEN "String"
  ELSE "Float"

\* The branch read_var takes on the two flags.
read_var_kind(ivarfun, ivarstr) ==
  IF ivarfun /\ ivarstr THEN "Integer"
  ELSE IF ivarfun THEN "Function"
  ELSE IF ivarstr THEN "String"
  ELSE "Float"

Failure(exc) == [ok |-> FALSE, exc |-> exc]

\* IntegerVariable.__init__
IntegerVariable(d, p) ==
  IF ~Unpackable(d, p + 2, 2) THEN Failure("struct.error")
  ELSE [ok |-> TRUE, kind |-> "Integer", pos |-> p, name |-> VariableName(d, p),
        value |-> BEh(d, p + 2)]

\* FloatVariable.__init__: value = mantissa * 2**(exponent - 128), the
\* mantissa kept as its four base-256 digits (most significant last).
FloatVariable(d, p) ==
  IF ~Unpackable(d, p + 2, 5) THEN Failure("struct.error")
  ELSE LET exponent == B(d, p + 2)
           top == B(d, p + 6)
       IN  [ok |-> TRUE, kind |-> "Float", pos |-> p,
            name |-> VariableName(d, p),
            zero |-> exponent = 0,
            neg |-> exponent # 0 /\ top >= 128,
            mantissa |-> IF exponent = 0 THEN <<0, 0, 0, 0>>
                         ELSE <<B(d, p + 3), B(d, p + 4), B(d, p + 5),
                                IF top >= 128 THEN top ELSE top + 128>>,
            exp |-> exponent - 128]

\* StringVariable.__init__
StringVariable(d, p) ==
  IF ~Unpackable(d, p + 2, 3) THEN Failure("struct.error")
  ELSE LET slen == B(d, p + 2)
           spos == LE16(d, p + 3)
       IN  [ok |-> TRUE, kind |-> "String", pos |-> p,
            name |-> VariableName(d, p),
            begin |-> spos, end |-> spos + slen,
            value |-> Slice(d, spos, spos + slen)]

\* BasicFunction.__init__
BasicFunction(d, p) ==
  [ok |-> TRUE, kind |-> "Function", pos |-> p, name |-> VariableName(d, p)]

\* Dump.read_var
read_var(d, p) ==
  IF ~Indexable(d, p) \/ ~Indexable(d, p + 1) THEN Failure("IndexError")
  ELSE LET k == read_var_kind(B(d, p) >= 128, B(d, p + 1) >= 128)
       IN  CASE k = "Integer" -> IntegerVariable(d, p)
             [] k = "Function" -> BasicFunction(d, p)
             [] k = "String" -> StringVariable(d, p)
             [] OTHER -> FloatVariable(d, p)

\* One string value as it is printed: descriptor, bytes, and the "*" flag.
StrValue(d, spos, slen, ft) ==
  [ptr |-> spos, len |-> slen, value |-> Slice(d, spos, spos + slen),
   flag |-> spos >= ft]

\* __str__ of the scalar classes: whether it returned, the liveness map
\* after it, the printed record and the string values in it.
\* StringVariable.__str__ marks the bytes of a value at or above FRETOP;
\* BasicFunction.__str__ unpacks "<BBHHB".
ScalarStr(v, d, u, ft) ==
  CASE v.kind = "String" ->
         LET sv == StrValue(d, v.begin, v.end - v.begin, ft)
             m == IF sv.flag THEN mark_used(u, v.begin, v.end)
                  ELSE [used |-> u, ok |-> TRUE]
         IN  [ok |-> m.ok, exc |-> "IndexError", used |-> m.used,
              rec |-> v @@ [flag |-> sv.flag], strs |-> {sv}]
    [] v.kind = "Function" ->
         IF ~Unpackable(d, v.pos, 7)
           THEN [ok |-> FALSE, exc |-> "struct.error", used |-> u,
                 rec |-> v, strs |-> {}]
           ELSE [ok |-> TRUE, exc |-> "none", used |-> u,
                 rec |-> v @@ [defptr |-> LE16(d, v.pos + 2),
                               varptr |-> LE16(d, v.pos + 4),
                               unknown |-> B(d, v.pos + 6)],
                 strs |-> {}]
    [] OTHER -> [ok |-> TRUE, exc |-> "none", used |-> u, rec |-> v,
                 strs |-> {}]

\* The type character of an array, "function" for the combination the
\* constructor refuses.
ArrayTchr(ivarfun, ivarstr) ==
  IF ivarfun /\ ivarstr THEN "%"
  ELSE IF ivarfun THEN "function"
  ELSE IF ivarstr THEN "$"
  ELSE ""

\* ArrayVariable.__init__
ArrayVariable(d, p) ==
  IF ~Indexable(d, p) \/ ~Indexable(d, p + 1) THEN Failure("IndexError")
  ELSE LET tchr == ArrayTchr(B(d, p) >= 128, B(d, p + 1) >= 128)
       IN  IF tchr = "function" THEN Failure("NotImplementedError")
           ELSE IF ~Unpackable(d, p + 2, 2) \/ ~Unpackable(d, p + 4, 1)
             THEN Failure("struct.error")
           ELSE IF B(d, p + 4) > 0 /\ ~Unpackable(d, p + 5, 2 * B(d, p + 4))
             THEN Failure("struct.error")
           ELSE [ok |-> TRUE, kind |-> "Array", pos |-> p,
                 name |-> VariableName(d, p), tchr |-> tchr,
                 bytes |-> LE16(d, p + 2), dim |-> B(d, p + 4),
                 nelems |-> [i \in 1..B(d, p + 4) |->
                               BE16(d, p + 5 + 2 * (i - 1))]]

\* The bounds ArrayVariable.__str__ prints, in the order it prints them.
ArrayBounds(nelems) == [i \in 1..Len(nelems) |-> nelems[i] - 1]

\* range(0, int((bytes - 5 - 2*dim)/3)): int() cuts towards zero, and a
\* range up to a number below 1 is empty.
ArrayStrCount(bytes, dim) ==
  IF bytes - 5 - 2 * dim > 0 THEN (bytes - 5 - 2 * dim) \div 3 ELSE 0

\* The loop of ArrayVariable.__str__ over the descriptors from element i on.
RECURSIVE ArrayElems(_, _, _, _, _, _, _)
ArrayElems(d, u, base, i, n, ft, acc) ==
  IF i >= n THEN [ok |-> TRUE, exc |-> "none", used |-> u, elems |-> acc]
  ELSE IF ~Unpackable(d, base + 3 * i, 3)
    THEN [ok |-> FALSE, exc |-> "struct.error", used |-> u, elems |-> acc]
  ELSE LET slen == B(d, base + 3 * i)
           spos == LE16(d, base + 3 * i + 1)
           sv == StrValue(d, spos, slen, ft)
           m == IF sv.flag THEN mark_used(u, spos, spos + slen)
                ELSE [used |-> u, ok |-> TRUE]
       IN  IF ~m.ok
             THEN [ok |-> FALSE, exc |-> "IndexError", used |-> m.used,
                   elems |-> acc]
             ELSE ArrayElems(d, m.used, base, i + 1, n, ft, Append(acc, sv))

\* ArrayVariable.__str__
ArrayStr(a, d, u, ft) ==
  LET e == IF a.tchr = "$"
             THEN ArrayElems(d, u, a.pos + 5 + 2 * a.dim, 0,
                             ArrayStrCount(a.bytes, a.dim), ft, << >>)
             ELSE [ok |-> TRUE, exc |-> "none", used |-> u, elems |-> << >>]
  IN  [ok |-> e.ok, exc |-> e.exc, used |-> e.used,
       rec |-> a @@ [bounds |-> ArrayBounds(a.nelems), elems |-> e.elems],
       strs |-> {e.elems[i] : i \in 1..Len(e.elems)}]

-----------------------------------------------------------------------------
(* Bounds of the model *)

\* Most scalar slots and most array records of a session image.
MaxVars == 2
MaxArrs == 2

\* Bytes of string heap between FRETOP and MEMSIZ in a session image.
HeapLen == 4

\* A session image ends up to MaxCut bytes short of one byte past MEMSIZ.
MaxCut == 2

\* Most dimensions of an array record of a decoder image.
MaxDim == 2

\* Length of the liveness map print_heap_garbage is applied to alone.
MapLen == 10

\* Length of the liveness map mark_used is applied to alone, and how far
\* its arguments reach below 0 and above that length.
MarkLen == 4
MarkReach == 2

\* The printed lines are counted modulo LineMod.
LineMod == 2

-----------------------------------------------------------------------------
(* Memory images *)

Zeros(n) == [i \in 1..n |-> 0]

LE2(n) == <<n % 256, n \div 256>>

\* Offset of the first byte after the layout header.
BodyBase == HeaderOffset + HeaderSize

\* An image: zero page up to the header, the seven header words, the body.
Image(vt, at, se, ft, ms, body) ==
  Zeros(HeaderOffset) \o LE2(2049) \o LE2(vt) \o LE2(at) \o LE2(se)
    \o LE2(ft) \o LE2(0) \o LE2(ms) \o body

\* Scalar slots of the session images, for a heap at ft..ms-1.
VarSample(k, ft, ms) ==
  CASE k = 1 -> <<201, 128, 0, 42, 0, 0, 0>>                \* I% = 42
    [] k = 2 -> <<83, 128, 2>> \o LE2(ft) \o <<0, 0>>        \* S$ in the heap
    [] k = 3 -> <<84, 128, 2>> \o LE2(ft - 1) \o <<0, 0>>    \* T$ across FRETOP
    [] k = 4 -> <<65, 49, 129, 0, 0, 0, 0>>                  \* A1 = 1.0
    [] k = 5 -> <<85, 128, 2>> \o LE2(ms - 1) \o <<0, 0>>    \* U$ across MEMSIZ
    [] k = 6 -> <<198, 78, 1, 8, 60, 0, 0>>                  \* DEF FN FN
    [] k = 7 -> <<86, 128, HeapLen + 3>> \o LE2(ft - 1) \o <<0, 0>>
    [] k = 8 -> <<87, 128, 0>> \o LE2(ft + 1) \o <<0, 0>>    \* W$ = ""
    [] OTHER -> <<88, 128, 2>> \o LE2(10) \o <<0, 0>>        \* X$ in low memory

NVarSamples == 9

\* Array records of the session images.
ArrSample(k, ft, ms) ==
  CASE k = 1 -> <<201, 128, 9, 0, 1, 0, 1, 0, 7>>            \* I%(0)
    [] k = 2 -> <<83, 128, 13, 0, 1, 0, 2, 1>> \o LE2(ft)
                  \o <<2>> \o LE2(ft + 1)                    \* S$(1)
    [] k = 3 -> <<65, 0, 0, 0, 1, 0, 1, 0, 0, 0, 0, 0>>      \* stored length 0
    [] k = 4 -> <<84, 128, 13, 0, 1, 0, 2, 1>> \o LE2(ft)
                  \o <<3>> \o LE2(ms - 1)                    \* T$(1), past the end
    [] k = 5 -> <<198, 0, 7, 0, 1, 0, 1>>                    \* function tag
    [] k = 6 -> <<194, 128, 21, 0, 2, 0, 3, 0, 2,
                  0, 1, 0, 2, 0, 3, 0, 4, 0, 5, 0, 6>>       \* B%(1,2)
    [] OTHER -> <<85, 128, 11, 0, 1, 0, 1, 2>> \o LE2(ft - 1) \o <<0>>

NArrSamples == 7

\* n consecutive samples from the k-th on, concatenated.
RECURSIVE VarBytes(_, _, _, _)
VarBytes(k, n, ft, ms) ==
  IF n = 0 THEN << >>
  ELSE VarSample(k, ft, ms) \o VarBytes((k % NVarSamples) + 1, n - 1, ft, ms)

RECURSIVE ArrBytes(_, _, _, _)
ArrBytes(k, n, ft, ms) ==
  IF n = 0 THEN << >>
  ELSE ArrSample(k, ft, ms) \o ArrBytes((k % NArrSamples) + 1, n - 1, ft, ms)

\* The session image with nv slots from sample kv on and na array records
\* from sample ka on, one byte between STREND and FRETOP, the heap "ABCD..",
\* one byte after MEMSIZ; cut to length len when len >= 0.
SessionImage(kv, nv, ka, na, cut) ==
  LET vt == BodyBase
      at == vt + VarStride * nv
      se == at + Len(ArrBytes(ka, na, 0, 0))
      ft == se + 1
      ms == ft + HeapLen
      full == Image(vt, at, se, ft, ms,
                    VarBytes(kv, nv, ft, ms) \o ArrBytes(ka, na, ft, ms)
                      \o <<0>> \o [i \in 1..HeapLen |-> 64 + i] \o <<0>>)
  IN  SubSeq(full, 1, Len(full) - cut)

\* How many bytes a session image of full length n may miss: a few at the
\* end, or so many that the header, a slot or an array record is cut.
Cuts(n) ==
  (0..MaxCut) \cup {n - (BodyBase - 1), n - (BodyBase + 3), n - (BodyBase + 5),
                    n - (BodyBase + 10), HeapLen + 3}

SessionImages ==
  UNION { UNION { LET n == Len(SessionImage(kv, nv, ka, na, 0))
                  IN  {SessionImage(kv, nv, ka, na, c) :
                         c \in {x \in Cuts(n) : x >= 0 /\ x <= n}} :
                  kv \in (IF nv = 0 THEN {1} ELSE 1..NVarSamples),
                  ka \in (IF na = 0 THEN {1} ELSE 1..NArrSamples) } :
          nv \in 0..MaxVars, na \in 0..MaxArrs }

\* Bytes the decoder images draw from.
ByteSamples == {0, 5, 127, 128, 251, 255}

\* Every 7-byte slot over a few name bytes and the sampled value bytes.
RawSlots ==
  { <<b0, b1, b2, b3, b4, 0, b6>> :
      b0 \in {65, 90, 193, 218}, b1 \in {0, 49, 128, 177},
      b2 \in ByteSamples, b3 \in ByteSamples, b4 \in {0, 128}, b6 \in {0, 255} }

\* Every array header of up to MaxDim dimensions over sampled counts.
CountSamples == { <<hi, lo>> : hi \in {0, 1}, lo \in {0, 4, 6} }

RECURSIVE Flatten(_)
Flatten(ss) == IF ss = << >> THEN << >> ELSE Head(ss) \o Flatten(Tail(ss))

RawArrays ==
  UNION { { <<b0, b1>> \o LE2(5 + 2 * n) \o <<n>> \o Flatten(cs) :
              b0 \in {65, 193}, b1 \in {0, 128},
              cs \in [1..n -> CountSamples] } : n \in 0..MaxDim }

DecodeImage(slot, arr) ==
  LET vt == BodyBase
      at == vt + VarStride
      se == at + Len(arr)
  IN  Image(vt, at, se, se, se + 2, slot \o arr \o <<65, 66>>)

DecodeImages ==
  { DecodeImage(slot, ArrSample(1, 0, 0)) : slot \in RawSlots }
    \cup { DecodeImage(VarSample(1, 0, 0), arr) : arr \in RawArrays }

-----------------------------------------------------------------------------
(* The dump session: analyse_dump *)

NoRecord == [kind |-> "None", pos |-> 0]

Start(image) ==
  /\ data = image
  /\ used = << >>
  /\ txttab = 0 /\ vartab = 0 /\ arytab = 0
  /\ strend = 0 /\ fretop = 0 /\ memsiz = 0
  /\ pc = "start"
  /\ err = "none"
  /\ pos = 0
  /\ last = NoRecord
  /\ vlog = << >>
  /\ alog = {}
  /\ strs = {}
  /\ garbage = << >>
  /\ tick = 0
  /\ call = <<0, 0>>

Init == \E image \in SessionImages : Start(image)

InitDecode == \E image \in DecodeImages : Start(image)

Raise(exc) == pc' = "error" /\ err' = exc

\* dump = Dump(data)
Construct ==
  /\ pc = "start"
  /\ used' = Zeros(Len(data))
  /\ IF Unpackable(data, HeaderOffset, HeaderSize)
       THEN /\ txttab' = LE16(data, HeaderOffset)
            /\ vartab' = LE16(data, HeaderOffset + 2)
            /\ arytab' = LE16(data, HeaderOffset + 4)
            /\ strend' = LE16(data, HeaderOffset + 6)
            /\ fretop' = LE16(data, HeaderOffset + 8)
            /\ memsiz' = LE16(data, HeaderOffset + 12)
            /\ pc' = "vars"
            /\ pos' = vartab'
            /\ err' = err
       ELSE /\ Raise("struct.error")
            /\ UNCHANGED <<txttab, vartab, arytab, strend, fretop, memsiz, pos>>
  /\ UNCHANGED <<data, last, vlog, alog, strs, garbage, tick, call>>

\* One pass of: for i in range(vartab, arytab, 7): print(read_var(i))
VarStep ==
  /\ pc = "vars"
  /\ pos < arytab
  /\ LET v == read_var(data, pos)
     IN  IF ~v.ok
           THEN Raise(v.exc) /\ UNCHANGED <<used, pos, last, vlog, strs, tick>>
           ELSE LET s == ScalarStr(v, data, used, fretop)
                IN  /\ used' = s.used
                    /\ IF s.ok
                         THEN /\ last' = s.rec
                              /\ strs' = strs \cup s.strs
                              /\ vlog' = Append(vlog, pos)
                              /\ pos' = pos + VarStride
                              /\ tick' = (tick + 1) % LineMod
                              /\ UNCHANGED <<pc, err>>
                         ELSE /\ Raise(s.exc)
                              /\ UNCHANGED <<pos, last, vlog, strs, tick>>
  /\ UNCHANGED <<data, txttab, vartab, arytab, strend, fretop, memsiz,
                 alog, garbage, call>>

\* The scalar loop followed by the garbage scan, the array table skipped.
VarsDone_ScanFirst ==
  /\ pc = "vars"
  /\ pos >= arytab
  /\ pc' = "garbage"
  /\ pos' = arytab
  /\ UNCHANGED <<data, used, txttab, vartab, arytab, strend, fretop, memsiz,
                 err, last, vlog, alog, strs, garbage, tick, call>>

\* The range is exhausted: pos = dump.arytab
VarsDone ==
  /\ pc = "vars"
  /\ pos >= arytab
  /\ pc' = "arrays"
  /\ pos' = arytab
  /\ UNCHANGED <<data, used, txttab, vartab, arytab, strend, fretop, memsiz,
                 err, last, vlog, alog, strs, garbage, tick, call>>

\* One pass of: while pos < dump.strend: arr = ArrayVariable(..);
\* print(arr); pos += arr.bytes
ArrayStep ==
  /\ pc = "arrays"
  /\ pos < strend
  /\ LET a == ArrayVariable(data, pos)
     IN  IF ~a.ok
           THEN Raise(a.exc) /\ UNCHANGED <<used, pos, last, alog, strs, tick>>
           ELSE LET s == ArrayStr(a, data, used, fretop)
                IN  /\ used' = s.used
                    /\ IF s.ok
                         THEN /\ last' = s.rec
                              /\ strs' = strs \cup s.strs
                              /\ alog' = alog \cup {pos}
                              /\ pos' = pos + a.bytes
                              /\ tick' = (tick + 1) % LineMod
                              /\ UNCHANGED <<pc, err>>
                         ELSE /\ Raise(s.exc)
                              /\ UNCHANGED <<pos, last, alog, strs, tick>>
  /\ UNCHANGED <<data, txttab, vartab, arytab, strend, fretop, memsiz,
                 vlog, garbage, call>>

\* The while loop ends
ArraysDone ==
  /\ pc = "arrays"
  /\ pos >= strend
  /\ pc' = "garbage"
  /\ UNCHANGED <<data, used, txttab, vartab, arytab, strend, fretop, memsiz,
                 err, pos, last, vlog, alog, strs, garbage, tick, call>>

\* dump.print_heap_garbage()
PrintHeapGarbage ==
  /\ pc = "garbage"
  /\ LET g == print_heap_garbage(used, fretop, memsiz)
     IN  /\ garbage' = g.ranges
         /\ IF g.ok THEN pc' = "done" /\ err' = err ELSE Raise("IndexError")
  /\ UNCHANGED <<data, used, txttab, vartab, arytab, strend, fretop, memsiz,
                 pos, last, vlog, alog, strs, tick, call>>

Next ==
  \/ Construct
  \/ VarStep
  \/ VarsDone
  \/ ArrayStep
  \/ ArraysDone
  \/ PrintHeapGarbage

Spec == Init /\ [][Next]_vars

SpecDecode == InitDecode /\ [][Next]_vars

-----------------------------------------------------------------------------
(* print_heap_garbage and mark_used on their own *)

Maps(n) == [1..n -> {0, 1}]

\* A Dump about to scan: any liveness map, any FRETOP and MEMSIZ.
InitScan ==
  \E u \in Maps(MapLen), lo \in 0..(MapLen + 1), hi \in 0..(MapLen + 1) :
    /\ data = Zeros(MapLen)
    /\ used = u
    /\ txttab = 0 /\ vartab = 0 /\ arytab = 0 /\ strend = 0
    /\ fretop = lo /\ memsiz = hi
    /\ pc = "garbage"
    /\ err = "none"
    /\ pos = 0
    /\ last = NoRecord
    /\ vlog = << >>
    /\ alog = {}
    /\ strs = {}
    /\ garbage = << >>
    /\ tick = 0
    /\ call = <<0, 0>>

SpecScan == InitScan /\ [][PrintHeapGarbage]_vars

\* A Dump whose mark_used is called with any two integers.
InitMark ==
  \E u \in Maps(MarkLen) :
    /\ data = Zeros(MarkLen)
    /\ used = u
    /\ txttab = 0 /\ vartab = 0 /\ arytab = 0 /\ strend = 0
    /\ fretop = 0 /\ memsiz = 0
    /\ pc = "call"
    /\ err = "none"
    /\ pos = 0
    /\ last = NoRecord
    /\ vlog = << >>
    /\ alog = {}
    /\ strs = {}
    /\ garbage = << >>
    /\ tick = 0
    /\ call = <<0, 0>>

MarkArgs == (0 - MarkReach)..(MarkLen + MarkReach)

\* dump.mark_used(spos, epos)
MarkCall ==
  /\ pc = "call"
  /\ \E spos \in MarkArgs, epos \in MarkArgs :
       LET m == mark_used(used, spos, epos)
       IN  /\ used' = m.used
           /\ call' = <<spos, epos>>
           /\ IF m.ok THEN pc' = pc /\ err' = err ELSE Raise("IndexError")
  /\ UNCHANGED <<data, txttab, vartab, arytab, strend, fretop, memsiz,
                 pos, last, vlog, alog, strs, garbage, tick>>

SpecMark == InitMark /\ [][MarkCall]_vars

-----------------------------------------------------------------------------
(* Properties of the decoders, under SpecDecode *)

Scalar(r) == r.kind \in {"Integer", "Function", "String", "Float"}

\* C1: the variant read_var returns for the slot at an offset is decided by
\* the high bits of its bytes 0 (fun) and 1 (str) alone: fun and str give
\* Integer, fun alone Function, str alone String, neither Float, whatever
\* the other bits and bytes of the slot are.
C1_VariantFromFlags ==
  Scalar(last) =>
    LET fun == B(data, last.pos) >= 128
        str == B(data, last.pos + 1) >= 128
    IN  /\ (fun /\ str) => last.kind = "Integer"
        /\ (fun /\ ~str) => last.kind = "Function"
        /\ (~fun /\ str) => last.kind = "String"
        /\ (~fun /\ ~str) => last.kind = "Float"

\* A Function record read from a slot whose name bits and value bytes are
\* not zero.
C1_Witness ==
  /\ last.kind = "Function"
  /\ B(data, last.pos) = 218
  /\ B(data, last.pos + 1) = 49
  /\ B(data, last.pos + 2) = 255
  /\ B(data, last.pos + 6) = 255

\* C5: the value of an Integer record is the 16-bit two's complement
\* reading of 256*b2 + b3, b2 and b3 the bytes at offsets 2 and 3 of the
\* slot: it lies in -32768..32767, bytes 0,5 give 5 and bytes 255,251 give
\* -5, and no other byte of the slot enters it.
C5_IntegerBigEndian ==
  last.kind = "Integer" =>
    LET b2 == B(data, last.pos + 2)
        b3 == B(data, last.pos + 3)
    IN  /\ last.value \in (0 - 32768)..32767
        /\ (last.value - (256 * b2 + b3)) % 65536 = 0
        /\ (b2 = 0 /\ b3 = 5) => last.value = 5
        /\ (b2 = 255 /\ b3 = 251) => last.value = 0 - 5

\* The Integer record of bytes $FF,$FB, read as -5 from a slot whose fifth
\* and seventh bytes are not zero.
C5_Witness ==
  /\ last.kind = "Integer"
  /\ B(data, last.pos + 2) = 255
  /\ B(data, last.pos + 3) = 251
  /\ B(data, last.pos + 4) = 128
  /\ B(data, last.pos + 6) = 255
  /\ last.value = 0 - 5

\* C4: the bounds printed for an array record are its stored counts, each
\* minus one, in the reverse of the stored order (the order of the DIM
\* statement).
C4_BoundsInDeclaredOrder ==
  last.kind = "Array" =>
    last.bounds = [i \in 1..last.dim |->
                     BE16(data, last.pos + 5 + 2 * (last.dim - i)) - 1]

-----------------------------------------------------------------------------
(* Properties of print_heap_garbage, under SpecScan *)

Marked(i) == B(used, i) = 1

\* s..e-1 is a run of unmarked bytes of fretop..memsiz-1 that no unmarked
\* byte of that interval touches.
MaximalRun(s, e) ==
  /\ fretop <= s /\ s < e /\ e <= memsiz /\ e <= Len(used)
  /\ \A i \in s..(e - 1) : ~Marked(i)
  /\ s = fretop \/ Marked(s - 1)
  /\ e = memsiz \/ (e < Len(used) /\ Marked(e))

\* C2: the ranges the scan reports are non-empty maximal runs of unmarked
\* bytes of [fretop, memsiz), in increasing order with a marked byte
\* between any two; when the scan has run to its end they are all of them,
\* so their union is the set of unmarked bytes of the interval and a run
\* open at memsiz ends at memsiz; 10 bytes with [2,5) marked give
\* [(0,2),(5,10)].
C2_GarbageIsMaximalRuns ==
  /\ \A k \in 1..Len(garbage) : MaximalRun(garbage[k][1], garbage[k][2])
  /\ \A k \in 1..(Len(garbage) - 1) : garbage[k][2] < garbage[k + 1][1]
  /\ pc = "done" =>
       /\ \A s \in 0..Len(used), e \in 0..Len(used) :
            MaximalRun(s, e) => \E k \in 1..Len(garbage) : garbage[k] = <<s, e>>
       /\ \A i \in 0..(Len(used) - 1) :
            (fretop <= i /\ i < memsiz /\ ~Marked(i)) <=>
              \E k \in 1..Len(garbage) : garbage[k][1] <= i /\ i < garbage[k][2]
       /\ (fretop = 0 /\ memsiz = 10
             /\ {i \in 0..(Len(used) - 1) : Marked(i)} = {2, 3, 4})
            => garbage = << <<0, 2>>, <<5, 10>> >>

\* The scan of 10 bytes with [2,5) marked has reported (0,2) and the run
\* still open at the end, (5,10).
C2_Witness ==
  /\ pc = "done"
  /\ fretop = 0 /\ memsiz = 10
  /\ {i \in 0..(Len(used) - 1) : Marked(i)} = {2, 3, 4}
  /\ garbage = << <<0, 2>>, <<5, 10>> >>

-----------------------------------------------------------------------------
(* Properties of mark_used, under SpecMark *)

\* C6: mark_used(start, end) never fails; with start < 0, end beyond the
\* map or start >= end it leaves the map as it is, otherwise it marks
\* start..end-1 and nothing else; the same call again changes nothing.
C6_MarkUsedTotal ==
  [][ LET spos == call'[1]
          epos == call'[2]
      IN  /\ pc' # "error"
          /\ IF spos < 0 \/ epos > Len(used) \/ spos >= epos
               THEN used' = used
               ELSE used' = [i \in 1..Len(used) |->
                               IF spos < i /\ i <= epos THEN 1 ELSE used[i]]
          /\ call' = call => used' = used ]_vars

-----------------------------------------------------------------------------
(* Properties of the dump session, under Spec *)

InGarbage(i) ==
  \E k \in 1..Len(garbage) : garbage[k][1] <= i /\ i < garbage[k][2]

\* C3: when the session has ended, no byte of the string heap that a
\* printed string value (of a string scalar or of an element of a string
\* array) covers lies in a reported garbage range, wherever the value
\* starts.
C3_NoLiveByteInGarbage ==
  pc = "done" =>
    \A sv \in strs : \A i \in sv.ptr..(sv.ptr + sv.len - 1) :
      (fretop <= i /\ i < memsiz) => ~InGarbage(i)

\* Bytes a printed record was unpacked from, from its offset on.
RecordBytes(r) ==
  CASE r.kind = "Integer" -> 4
    [] r.kind = "String" -> 5
    [] r.kind = "Float" -> 7
    [] r.kind = "Function" -> 7
    [] r.kind = "Array" -> 5 + 2 * r.dim + 3 * Len(r.elems)
    [] OTHER -> 0

\* C7: no read of the session passes the end of the image and yields a
\* value: the header is read only from an image of at least $2B+12 bytes,
\* a printed record lies inside the image, and so do the bytes
\* [ptr, ptr+len) of every printed string value.
C7_NoValuePastEnd ==
  /\ Len(data) < HeaderOffset + 12 => pc \in {"start", "error"}
  /\ last.pos + RecordBytes(last) <= Len(data)
  /\ \A sv \in strs : \A i \in sv.ptr..(sv.ptr + sv.len - 1) : i < Len(data)

\* C8: the walk of the array table is finite: every pass of the loop
\* that stays in the loop leaves the cursor nearer to STREND than it found
\* it, whatever the stored length of the record it decoded is.  (The image
\* does not change and a stored length is never negative, so a pass that
\* does not move the cursor is repeated for ever.)
C8_ArrayWalkAdvances ==
  [][(pc = "arrays" /\ pc' = "arrays") => pos' > pos]_vars

Phase(p) ==
  CASE p = "start" -> 0
    [] p = "vars" -> 1
    [] p = "arrays" -> 2
    [] p = "garbage" -> 3
    [] p = "done" -> 4
    [] OTHER -> 5

FullyMarked(sv) ==
  \A i \in sv.ptr..(sv.ptr + sv.len - 1) : i < Len(used) /\ Marked(i)

C10_MarksAreOfPrintedStrings ==
  /\ \A i \in 0..(Len(used) - 1) :
       Marked(i) => \E sv \in strs :
                      sv.ptr >= fretop /\ sv.ptr <= i /\ i < sv.ptr + sv.len
  /\ \A sv \in strs :
       /\ sv.flag <=> sv.ptr >= fretop
       /\ sv.flag => FullyMarked(sv)

=============================================================================
